---- MODULE Spec2Model ----
(***************************************************************************)
(* A model of the widget code generators.                                  *)
(*                                                                         *)
(*   codegen/src/index.ts   sample JSON -> interfaces, key paths, value    *)
(*                          type map (generatePackages)                    *)
(*   codegen valibot script OpenAPI components.schemas -> valibot          *)
(*                          validator constants (generateValibotSchemas)   *)
(*                                                                         *)
(* Text.  A JavaScript string is modelled as a sequence of atoms, an atom  *)
(* being a chunk of one or more characters.  Keys of the sample document   *)
(* are written one character per atom, so that pascalCase, the identifier  *)
(* test and split('.') see every character; the fixed pieces of a template *)
(* literal are one atom each.  Concatenation is \o.                        *)
(*                                                                         *)
(* JSON.  A parsed value is a record [t |-> tag, v |-> payload]:           *)
(*   null, bool, num, str (v a string), arr (v a sequence of values),      *)
(*   obj (v a sequence of <<key, value>> pairs in the order the document   *)
(*   text lists them, keys distinct), undefined (what a missing property   *)
(*   reads as).                                                            *)
(***************************************************************************)
EXTENDS Integers, Sequences, FiniteSets, TLC

VARIABLES json, pc, interfaces, keys, valueMappings,
          openapi, valibotSchema, next, exitCode,
          data, called, ast, program, input, effects

vars == <<json, pc, interfaces, keys, valueMappings,
          openapi, valibotSchema, next, exitCode,
          data, called, ast, program, input, effects>>

-----------------------------------------------------------------------------
(* Bounds of the explored inputs *)

MaxDepth == 2

MaxKeys == 4

MaxEnum == 2

MaxNest == 1

-----------------------------------------------------------------------------
(* JSON values *)

Null == [t |-> "null", v |-> 0]

Undefined == [t |-> "undefined", v |-> 0]

Bool(b) == [t |-> "bool", v |-> b]

Num(n) == [t |-> "num", v |-> n]

Str(s) == [t |-> "str", v |-> s]

Arr(s) == [t |-> "arr", v |-> s]

Obj(s) == [t |-> "obj", v |-> s]

\* typeof value === 'object' && value !== null
IsObjectLike(x) == x.t \in {"arr", "obj"}

\* typeof value === 'object' && value !== null && !Array.isArray(value)
IsPlainObject(x) == x.t = "obj"

-----------------------------------------------------------------------------
(* Characters *)

LowerSeq ==
  <<"a", "b", "c", "d", "e", "f", "g", "h", "i", "j", "k", "l", "m",
    "n", "o", "p", "q", "r", "s", "t", "u", "v", "w", "x", "y", "z">>

UpperSeq ==
  <<"A", "B", "C", "D", "E", "F", "G", "H", "I", "J", "K", "L", "M",
    "N", "O", "P", "Q", "R", "S", "T", "U", "V", "W", "X", "Y", "Z">>

Lower == {LowerSeq[i] : i \in DOMAIN LowerSeq}

Upper == {UpperSeq[i] : i \in DOMAIN UpperSeq}

DigitSeq == <<"0", "1", "2", "3", "4", "5", "6", "7", "8", "9">>

Digit == {DigitSeq[i] : i \in DOMAIN DigitSeq}

ToUpper(c) ==
  IF c \in Lower THEN UpperSeq[CHOOSE i \in DOMAIN LowerSeq : LowerSeq[i] = c] ELSE c

ToLower(c) ==
  IF c \in Upper THEN LowerSeq[CHOOSE i \in DOMAIN UpperSeq : UpperSeq[i] = c] ELSE c

DigitValue(c) == (CHOOSE i \in DOMAIN DigitSeq : DigitSeq[i] = c) - 1

RECURSIVE Flatten(_)
Flatten(ss) == IF ss = <<>> THEN <<>> ELSE Head(ss) \o Flatten(Tail(ss))

\* Array.prototype.join
RECURSIVE Join(_, _)
Join(ss, sep) ==
  IF ss = <<>> THEN <<>>
  ELSE IF Len(ss) = 1 THEN ss[1]
  ELSE ss[1] \o sep \o Join(Tail(ss), sep)

\* String.prototype.split(sep) for a one-atom separator: never empty
RECURSIVE Split(_, _)
Split(s, sep) ==
  IF \A i \in DOMAIN s : s[i] # sep THEN <<s>>
  ELSE LET i == CHOOSE j \in DOMAIN s :
                  s[j] = sep /\ \A k \in 1..(j - 1) : s[k] # sep
       IN <<SubSeq(s, 1, i - 1)>> \o Split(SubSeq(s, i + 1, Len(s)), sep)

-----------------------------------------------------------------------------
(* Own property order of a JavaScript object *)

\* a canonical array index: "0", or digits without a leading zero
IsArrayIndex(key) ==
  /\ key # <<>>
  /\ \A i \in DOMAIN key : key[i] \in Digit
  /\ (Len(key) > 1 => key[1] # "0")

RECURSIVE IndexValue(_)
IndexValue(key) ==
  IF key = <<>> THEN 0
  ELSE 10 * IndexValue(SubSeq(key, 1, Len(key) - 1)) + DigitValue(key[Len(key)])

RECURSIVE IndexKey(_)
IndexKey(n) ==
  IF n < 10 THEN <<DigitSeq[n + 1]>> ELSE IndexKey(n \div 10) \o <<DigitSeq[(n % 10) + 1]>>

RECURSIVE SortByIndex(_)
SortByIndex(es) ==
  IF es = <<>> THEN <<>>
  ELSE LET m == CHOOSE i \in DOMAIN es :
                  \A j \in DOMAIN es : IndexValue(es[i][1]) <= IndexValue(es[j][1])
       IN <<es[m]>> \o SortByIndex(SubSeq(es, 1, m - 1) \o SubSeq(es, m + 1, Len(es)))

\* Object.entries(x): integer-like keys ascending, then the other keys in
\* insertion order; an array lists its indices, a string its atoms; the
\* other primitives list nothing
ObjectEntries(x) ==
  IF x.t = "arr" THEN [i \in DOMAIN x.v |-> <<IndexKey(i - 1), x.v[i]>>]
  ELSE IF x.t = "str" THEN [i \in DOMAIN x.v |-> <<IndexKey(i - 1), Str(<<x.v[i]>>)>>]
  ELSE IF x.t = "obj"
  THEN SortByIndex(SelectSeq(x.v, LAMBDA e : IsArrayIndex(e[1])))
         \o SelectSeq(x.v, LAMBDA e : ~IsArrayIndex(e[1]))
  ELSE <<>>

HasKey(x, key) == \E i \in DOMAIN ObjectEntries(x) : ObjectEntries(x)[i][1] = key

\* x[key], undefined when the property is missing
Prop(x, key) ==
  IF x.t \in {"arr", "obj"} /\ HasKey(x, key)
  THEN LET es == ObjectEntries(x) IN es[CHOOSE i \in DOMAIN es : es[i][1] = key][2]
  ELSE Undefined

-----------------------------------------------------------------------------
(* pascalCase of change-case *)

IsAlnum(c) == c \in Lower \cup Upper \cup Digit

\* a word boundary falls between s[i] and s[i+1]
SplitsAfter(s, i) ==
  \/ s[i] \in Lower \cup Digit /\ s[i + 1] \in Upper
  \/ /\ i + 2 <= Len(s)
     /\ s[i] \in Upper /\ s[i + 1] \in Upper /\ s[i + 2] \in Lower

\* the words of s: maximal runs of letters and digits, cut at the boundaries
RECURSIVE WordsFrom(_, _, _)
WordsFrom(s, i, cur) ==
  IF i > Len(s) THEN (IF cur = <<>> THEN <<>> ELSE <<cur>>)
  ELSE IF ~IsAlnum(s[i])
  THEN (IF cur = <<>> THEN <<>> ELSE <<cur>>) \o WordsFrom(s, i + 1, <<>>)
  ELSE IF i < Len(s) /\ SplitsAfter(s, i)
  THEN <<cur \o <<s[i]>>>> \o WordsFrom(s, i + 1, <<>>)
  ELSE WordsFrom(s, i + 1, cur \o <<s[i]>>)

Words(s) == WordsFrom(s, 1, <<>>)

pascalCaseTransform(word, index) ==
  LET rest == [i \in 1..(Len(word) - 1) |-> ToLower(word[i + 1])]
  IN IF index > 0 /\ word[1] \in Digit
     THEN <<"_", word[1]>> \o rest
     ELSE <<ToUpper(word[1])>> \o rest

pascalCase(s) ==
  LET ws == Words(s)
  IN Flatten([i \in DOMAIN ws |-> pascalCaseTransform(ws[i], i - 1)])

-----------------------------------------------------------------------------
(* codegen/src/index.ts: type inference *)

\* /^[a-zA-Z_$][a-zA-Z0-9_$]*$/.test(key)
IsIdentifier(key) ==
  /\ key # <<>>
  /\ key[1] \in Lower \cup Upper \cup {"_", "$"}
  /\ \A i \in DOMAIN key : key[i] \in Lower \cup Upper \cup Digit \cup {"_", "$"}

PropName(key) == IF IsIdentifier(key) THEN key ELSE <<"\"">> \o key \o <<"\"">>

\* The name and depth arguments of the source never reach the result and
\* are left out.
RECURSIVE generateTypeFromValue(_)

\* the array case with its empty-array test dropped: value[0] is read anyway
ArrayTypeNoEmptyCase(value) ==
  generateTypeFromValue(IF Len(value.v) = 0 THEN Undefined ELSE value.v[1]) \o <<"[]">>

\* the array case reading the last element in place of value[0]
ArrayTypeLastElement(value) ==
  IF Len(value.v) = 0 THEN <<"any[]">>
  ELSE generateTypeFromValue(value.v[Len(value.v)]) \o <<"[]">>

ArrayType(value) ==
  IF Len(value.v) = 0 THEN <<"any[]">>
  ELSE generateTypeFromValue(value.v[1]) \o <<"[]">>

\* the object case writing every key bare
ObjectTypeBareKeys(value) ==
  LET es == ObjectEntries(value)
      properties ==
        Join([i \in DOMAIN es |->
                <<"  ">> \o es[i][1] \o <<": ">>
                  \o generateTypeFromValue(es[i][2]) \o <<";">>],
             <<"\n">>)
  IN <<"{\n">> \o properties \o <<"\n}">>

ObjectType(value) ==
  LET es == ObjectEntries(value)
      properties ==
        Join([i \in DOMAIN es |->
                <<"  ">> \o PropName(es[i][1]) \o <<": ">>
                  \o generateTypeFromValue(es[i][2]) \o <<";">>],
             <<"\n">>)
  IN <<"{\n">> \o properties \o <<"\n}">>

generateTypeFromValue(value) ==
  IF value.t = "null" THEN <<"null">>
  ELSE IF value.t = "undefined" THEN <<"undefined">>
  ELSE IF value.t = "bool" THEN <<"boolean">>
  ELSE IF value.t = "num" THEN <<"number">>
  ELSE IF value.t = "str" THEN <<"string">>
  ELSE IF value.t = "arr" THEN ArrayType(value)
  ELSE IF value.t = "obj" THEN ObjectType(value)
  ELSE <<"any">>

-----------------------------------------------------------------------------
(* codegen/src/index.ts: interface synthesis *)

PromoteThreshold == 3

RECURSIVE extractInterfaces(_, _)
extractInterfaces(obj, parentName) ==
  IF ~IsObjectLike(obj) THEN <<>>
  ELSE LET es == ObjectEntries(obj)
       IN Flatten([i \in DOMAIN es |->
            IF IsPlainObject(es[i][2])
            THEN LET interfaceName == pascalCase(parentName \o es[i][1])
                     interfaceType == generateTypeFromValue(es[i][2])
                 IN (IF Len(ObjectEntries(es[i][2])) > PromoteThreshold
                     THEN <<<<"export interface ">> \o interfaceName
                              \o <<" ">> \o interfaceType>>
                     ELSE <<>>)
                    \o extractInterfaces(es[i][2], interfaceName)
            ELSE <<>>])

RootName == <<"W", "i", "d", "g", "e", "t", "D", "a", "t", "a">>

\* the declarations pushed, root first
InterfaceList(doc) ==
  <<<<"export interface ">> \o RootName \o <<" ">> \o generateTypeFromValue(doc)>>
    \o extractInterfaces(doc, <<>>)

generateInterfacesFromJson(doc) == Join(InterfaceList(doc), <<"\n\n">>)

-----------------------------------------------------------------------------
(* codegen/src/index.ts: key paths and value type map *)

\* currentPath ? `${currentPath}.${key}` : key
FullPath(currentPath, key) ==
  IF currentPath # <<>> THEN currentPath \o <<".">> \o key ELSE key

RECURSIVE extractKeys(_, _)
extractKeys(obj, currentPath) ==
  IF ~IsObjectLike(obj) THEN <<>>
  ELSE LET es == ObjectEntries(obj)
       IN Flatten([i \in DOMAIN es |->
            LET fullPath == FullPath(currentPath, es[i][1])
            IN <<<<"'">> \o fullPath \o <<"'">>>>
                 \o (IF IsPlainObject(es[i][2])
                     THEN extractKeys(es[i][2], fullPath)
                     ELSE <<>>)])

generateKeyTypes(doc, prefix) == extractKeys(doc, prefix)

RECURSIVE extractMappings(_, _)

\* extractMappings without the descent into nested objects
extractMappingsTopLevel(obj, path) ==
  IF ~IsObjectLike(obj) THEN <<>>
  ELSE LET es == ObjectEntries(obj)
       IN [i \in DOMAIN es |->
            <<"  '">> \o FullPath(path, es[i][1]) \o <<"': ">>
              \o generateTypeFromValue(es[i][2]) \o <<";">>]

extractMappings(obj, path) ==
  IF ~IsObjectLike(obj) THEN <<>>
  ELSE LET es == ObjectEntries(obj)
       IN Flatten([i \in DOMAIN es |->
            LET fullPath == FullPath(path, es[i][1])
                valueType == generateTypeFromValue(es[i][2])
            IN <<<<"  '">> \o fullPath \o <<"': ">> \o valueType \o <<";">>>>
                 \o (IF IsPlainObject(es[i][2])
                     THEN extractMappings(es[i][2], fullPath)
                     ELSE <<>>)])

generateValueTypeMapping(doc) == Join(extractMappings(doc, <<>>), <<"\n">>)

-----------------------------------------------------------------------------
(* codegen/src/index.ts: the Widget class that generateWidgetClass writes *)

\* typeof x === 'object'
TypeofObject(x) == x.t \in {"null", "arr", "obj"}

\* the loop of get and has: one step per segment while
\* current && typeof current === 'object' && k in current
RECURSIVE Walk(_, _, _)
Walk(current, ks, i) ==
  IF i > Len(ks) THEN [found |-> TRUE, value |-> current]
  ELSE IF IsObjectLike(current) /\ HasKey(current, ks[i])
  THEN Walk(Prop(current, ks[i]), ks, i + 1)
  ELSE [found |-> FALSE, value |-> Undefined]

\* get without its test for the root key
getNoRootCase(d, key) == Walk(d, Split(key, "."), 1).value

get(d, key) ==
  IF key = <<>> THEN d
  ELSE Walk(d, Split(key, "."), 1).value

has(d, key) ==
  IF key = <<>> THEN TRUE
  ELSE Walk(d, Split(key, "."), 1).found

\* current[k] = value on an object or an array; an array takes an index up
\* to its length
Assign(current, k, value) ==
  IF current.t = "obj"
  THEN IF \E i \in DOMAIN current.v : current.v[i][1] = k
       THEN Obj([i \in DOMAIN current.v |->
                   IF current.v[i][1] = k THEN <<k, value>> ELSE current.v[i]])
       ELSE Obj(Append(current.v, <<k, value>>))
  ELSE IF IndexValue(k) < Len(current.v)
       THEN Arr([i \in DOMAIN current.v |->
                   IF i = IndexValue(k) + 1 THEN value ELSE current.v[i]])
       ELSE Arr(Append(current.v, value))

\* the loop of set from segment i on, and the final assignment: the object
\* current after the call, or a TypeError when the walk reaches null or a
\* primitive (`k in current` and `current[lastKey] = value` both throw in
\* class code), which happens before anything is written
RECURSIVE SetFrom(_, _, _, _)
SetFrom(current, ks, i, value) ==
  IF ~IsObjectLike(current) THEN [ok |-> FALSE, value |-> current]
  ELSE IF i = Len(ks) THEN [ok |-> TRUE, value |-> Assign(current, ks[i], value)]
  ELSE LET k == ks[i]
           child == IF ~HasKey(current, k) \/ ~TypeofObject(Prop(current, k))
                    THEN Obj(<<>>)
                    ELSE Prop(current, k)
           r == SetFrom(child, ks, i + 1, value)
       IN IF r.ok THEN [ok |-> TRUE, value |-> Assign(current, k, r.value)]
          ELSE [ok |-> FALSE, value |-> current]

set(d, key, value) == SetFrom(d, Split(key, "."), 1, value)

\* the input file of a run: whether fs.readFile succeeds, whether JSON.parse
\* accepts its text, and the value parsed
InputFile(readable, valid, value) == [readable |-> readable, valid |-> valid, value |-> value]

NoInput == InputFile(FALSE, FALSE, Null)

\* what the model remembers of the last call on the Widget
Call(op, key, value, result, threw) ==
  [op |-> op, key |-> key, value |-> value, result |-> result, threw |-> threw]

NoCall == Call("none", <<>>, Undefined, Undefined, FALSE)

-----------------------------------------------------------------------------
(* codegen valibot script: transformSchema *)

\* a value in a condition: if (x)
Truthy(x) ==
  CASE x.t \in {"null", "undefined"} -> FALSE
    [] x.t = "bool" -> x.v
    [] x.t = "num" -> x.v # 0
    [] x.t = "str" -> x.v # <<>>
    [] OTHER -> TRUE

\* `${x}` for the values an enum lists (numbers are naturals here; inside
\* an array null and undefined print as nothing)
RECURSIVE TemplateString(_)
TemplateString(x) ==
  CASE x.t = "str" -> x.v
    [] x.t = "num" -> IndexKey(x.v)
    [] x.t = "bool" -> IF x.v THEN <<"true">> ELSE <<"false">>
    [] x.t = "null" -> <<"null">>
    [] x.t = "undefined" -> <<"undefined">>
    [] x.t = "arr" ->
         Join([i \in DOMAIN x.v |->
                 IF x.v[i].t \in {"null", "undefined"} THEN <<>>
                 ELSE TemplateString(x.v[i])], <<",">>)
    [] OTHER -> <<"[object Object]">>

\* a call either returns a text or throws
Returns(text) == [ok |-> TRUE, text |-> text]

Throws == [ok |-> FALSE, text |-> <<>>]

Type(schema) == Prop(schema, <<"type">>)

RECURSIVE transformSchema(_, _)

\* the object rule wrapping in v.optional every property that the required
\* list of the node does not name
ObjectRuleRequiredAware(schema, api) ==
  LET props == Prop(schema, <<"properties">>)
      required == Prop(schema, <<"required">>)
      es == ObjectEntries(props)
      rs == [i \in DOMAIN es |-> transformSchema(es[i][2], api)]
      field(i) ==
        IF required.t = "arr" /\ \E j \in DOMAIN required.v : required.v[j] = Str(es[i][1])
        THEN rs[i].text
        ELSE <<"v.optional(">> \o rs[i].text \o <<")">>
  IN IF props.t \in {"null", "undefined"} \/ \E i \in DOMAIN rs : ~rs[i].ok
     THEN Throws
     ELSE Returns(<<"v.object({ ">>
                    \o Join([i \in DOMAIN es |-> es[i][1] \o <<": ">> \o field(i)], <<", ">>)
                    \o <<" })">>)

\* Object.entries(undefined) and Object.entries(null) throw
ObjectRule(schema, api) ==
  LET props == Prop(schema, <<"properties">>)
      es == ObjectEntries(props)
      rs == [i \in DOMAIN es |-> transformSchema(es[i][2], api)]
  IN IF props.t \in {"null", "undefined"} \/ \E i \in DOMAIN rs : ~rs[i].ok
     THEN Throws
     ELSE Returns(<<"v.object({ ">>
                    \o Join([i \in DOMAIN es |-> es[i][1] \o <<": ">> \o rs[i].text], <<", ">>)
                    \o <<" })">>)

ArrayRule(schema, api) ==
  LET r == transformSchema(Prop(schema, <<"items">>), api)
  IN IF r.ok THEN Returns(<<"v.array(">> \o r.text \o <<")">>) ELSE Throws

\* the enum rule keeping only the first of equal values
EnumRuleDistinct(schema) ==
  LET e == Prop(schema, <<"enum">>).v
      d == SelectSeq([i \in DOMAIN e |-> <<i, e[i]>>],
                     LAMBDA p : \A j \in 1..(p[1] - 1) : e[j] # p[2])
  IN IF Prop(schema, <<"enum">>).t # "arr" THEN Throws
     ELSE
     Returns(<<"v.union([">>
               \o Join([i \in DOMAIN d |->
                          <<"v.literal(\"">> \o TemplateString(d[i][2]) \o <<"\")">>], <<", ">>)
               \o <<"])">>)

\* schema.enum.map is a function for arrays only
EnumRule(schema) ==
  LET e == Prop(schema, <<"enum">>)
  IN IF e.t # "arr" THEN Throws
     ELSE Returns(<<"v.union([">>
                    \o Join([i \in DOMAIN e.v |->
                               <<"v.literal(\"">> \o TemplateString(e.v[i]) \o <<"\")">>], <<", ">>)
                    \o <<"])">>)

\* the referenced schema of a same-file reference, undefined when missing
Referenced(ref, api) ==
  LET segs == Split(ref, "/")
  IN Prop(Prop(Prop(api, <<"components">>), <<"schemas">>), segs[Len(segs)])

\* the $ref rule rendering the referenced schema in place of its name
RefRuleInlined(schema, api) ==
  LET ref == Prop(schema, <<"$ref">>)
      segs == Split(ref.v, "/")
      target == Referenced(ref.v, api)
  IN IF ref.t # "str" THEN Throws
     ELSE IF target.t = "obj" /\ ~HasKey(target, <<"$ref">>)
               /\ ~HasKey(target, <<"properties">>) /\ ~HasKey(target, <<"items">>)
     THEN transformSchema(target, api)
     ELSE Returns(segs[Len(segs)])

\* schema['$ref'].split is a function for strings only
RefRule(schema, api) ==
  LET ref == Prop(schema, <<"$ref">>)
      segs == Split(ref.v, "/")
  IN IF ref.t # "str" THEN Throws ELSE Returns(segs[Len(segs)])

\* the rules with the string rule tried before the enum rule
transformSchemaStringFirst(schema, api) ==
  IF schema.t \in {"null", "undefined"} THEN Throws
  ELSE IF Type(schema) = Str(<<"object">>) THEN ObjectRule(schema, api)
  ELSE IF Type(schema) = Str(<<"array">>) THEN ArrayRule(schema, api)
  ELSE IF Type(schema) = Str(<<"string">>) THEN Returns(<<"v.string()">>)
  ELSE IF Truthy(Prop(schema, <<"enum">>)) THEN EnumRule(schema)
  ELSE IF Type(schema) \in {Str(<<"number">>), Str(<<"integer">>)}
  THEN Returns(<<"v.number()">>)
  ELSE IF Type(schema) = Str(<<"boolean">>) THEN Returns(<<"v.boolean()">>)
  ELSE IF Truthy(Prop(schema, <<"$ref">>)) THEN RefRule(schema, api)
  ELSE Returns(<<"v.any()">>)

\* the rules with v.unknown() as the fallback
transformSchemaUnknownFallback(schema, api) ==
  IF schema.t \in {"null", "undefined"} THEN Throws
  ELSE IF Type(schema) = Str(<<"object">>) THEN ObjectRule(schema, api)
  ELSE IF Type(schema) = Str(<<"array">>) THEN ArrayRule(schema, api)
  ELSE IF Truthy(Prop(schema, <<"enum">>)) THEN EnumRule(schema)
  ELSE IF Type(schema) = Str(<<"string">>) THEN Returns(<<"v.string()">>)
  ELSE IF Type(schema) \in {Str(<<"number">>), Str(<<"integer">>)}
  THEN Returns(<<"v.number()">>)
  ELSE IF Type(schema) = Str(<<"boolean">>) THEN Returns(<<"v.boolean()">>)
  ELSE IF Truthy(Prop(schema, <<"$ref">>)) THEN RefRule(schema, api)
  ELSE Returns(<<"v.unknown()">>)

\* schema.type throws when schema is null or undefined
transformSchema(schema, api) ==
  IF schema.t \in {"null", "undefined"} THEN Throws
  ELSE IF Type(schema) = Str(<<"object">>) THEN ObjectRule(schema, api)
  ELSE IF Type(schema) = Str(<<"array">>) THEN ArrayRule(schema, api)
  ELSE IF Truthy(Prop(schema, <<"enum">>)) THEN EnumRule(schema)
  ELSE IF Type(schema) = Str(<<"string">>) THEN Returns(<<"v.string()">>)
  ELSE IF Type(schema) \in {Str(<<"number">>), Str(<<"integer">>)}
  THEN Returns(<<"v.number()">>)
  ELSE IF Type(schema) = Str(<<"boolean">>) THEN Returns(<<"v.boolean()">>)
  ELSE IF Truthy(Prop(schema, <<"$ref">>)) THEN RefRule(schema, api)
  ELSE Returns(<<"v.any()">>)

-----------------------------------------------------------------------------
(* codegen valibot script: generateValibotSchemas *)

ImportLine == <<"import * as v from 'valibot';\n\n">>

\* the schemas with the referenced ones moved in front of their users
SchemaEntriesReferencedFirst(doc) ==
  LET components == Prop(doc, <<"components">>)
      es == IF Truthy(components) /\ Truthy(Prop(components, <<"schemas">>))
            THEN ObjectEntries(Prop(components, <<"schemas">>))
            ELSE <<>>
      IsRef(e) == Truthy(Prop(e[2], <<"$ref">>)) /\ Prop(e[2], <<"$ref">>).t = "str"
  IN SelectSeq(es, LAMBDA e : ~IsRef(e)) \o SelectSeq(es, IsRef)

\* the entries the for-in loop visits, in its order
SchemaEntries(doc) ==
  LET components == Prop(doc, <<"components">>)
  IN IF Truthy(components) /\ Truthy(Prop(components, <<"schemas">>))
     THEN ObjectEntries(Prop(components, <<"schemas">>))
     ELSE <<>>

\* `export const ${schemaName} = ${...};\n\n`
ExportConst(schemaName, text) ==
  <<"export const ">> \o schemaName \o <<" = ">> \o text \o <<";\n\n">>

-----------------------------------------------------------------------------
(* The type nodes the type-AST front end walks *)

\* a node of the TypeScript AST: its kind, the text it carries (a name or a
\* literal), whether it has a question token, and its child nodes
Node(kind, text, opt, sub) == [kind |-> kind, text |-> text, opt |-> opt, sub |-> sub]

NoAst == Node("None", <<>>, FALSE, <<>>)

Keyword(kind) == Node(kind, <<>>, FALSE, <<>>)

\* name?: type  or  name: type
PropertySignature(name, questionToken, type) ==
  Node("PropertySignature", <<name>>, questionToken, <<type>>)

\* [key: string]: type, a member that is not a property signature
IndexSignature(type) == Node("IndexSignature", <<>>, FALSE, <<type>>)

TypeLiteral(members) == Node("TypeLiteral", <<>>, FALSE, members)

ArrayTypeNode(elementType) == Node("ArrayType", <<>>, FALSE, <<elementType>>)

\* a reference whose typeName is an identifier, or a qualified name a.b
TypeReference(typeNameKind, name) ==
  Node("TypeReference", <<>>, FALSE, <<Node(typeNameKind, <<name>>, FALSE, <<>>)>>)

\* objectType[indexType]
IndexedAccessType(objectType, indexType) ==
  Node("IndexedAccessType", <<>>, FALSE, <<objectType, indexType>>)

\* a literal type node holding a string literal
LiteralType(text) ==
  Node("LiteralType", <<>>, FALSE, <<Node("StringLiteral", <<text>>, FALSE, <<>>)>>)

InterfaceDeclaration(name, members) == Node("InterfaceDeclaration", <<name>>, FALSE, members)

-----------------------------------------------------------------------------
(* type-AST front end: transformNode *)

RECURSIVE transformNode(_)

\* the text of one property with the question token ignored
PropertyTextNeverOptional(member, type) == member.text \o <<": ">> \o type

\* `${name}: ${isOptional ? `v.optional(${type})` : type}`
PropertyText(member, type) ==
  member.text \o <<": ">>
    \o (IF member.opt THEN <<"v.optional(">> \o type \o <<")">> ELSE type)

\* members.map(...).join(', '): a member that is not a property signature
\* maps to undefined, which join writes as the empty string
TypeLiteralText(node) ==
  LET rs == [i \in DOMAIN node.sub |->
               IF node.sub[i].kind = "PropertySignature"
               THEN transformNode(node.sub[i].sub[1])
               ELSE Returns(<<>>)]
  IN IF \E i \in DOMAIN rs : ~rs[i].ok THEN Throws
     ELSE Returns(<<"v.object({ ">>
                    \o Join([i \in DOMAIN node.sub |->
                               IF node.sub[i].kind = "PropertySignature"
                               THEN PropertyText(node.sub[i], rs[i].text)
                               ELSE <<>>],
                            <<", ">>)
                    \o <<" })">>)

\* indexType.literal.text throws when the index type is not a literal type
transformNode(node) ==
  IF node.kind = "TypeLiteral" THEN TypeLiteralText(node)
  ELSE IF node.kind = "ArrayType"
  THEN LET r == transformNode(node.sub[1])
       IN IF r.ok THEN Returns(<<"v.array(">> \o r.text \o <<")">>) ELSE Throws
  ELSE IF node.kind = "StringKeyword" THEN Returns(<<"v.string()">>)
  ELSE IF node.kind = "NumberKeyword" THEN Returns(<<"v.number()">>)
  ELSE IF node.kind = "BooleanKeyword" THEN Returns(<<"v.boolean()">>)
  ELSE IF node.kind = "TypeReference" /\ node.sub[1].kind = "Identifier"
  THEN Returns(node.sub[1].text)
  ELSE IF node.kind = "IndexedAccessType"
  THEN IF node.sub[2].kind = "LiteralType" THEN Returns(node.sub[2].sub[1].text) ELSE Throws
  ELSE Returns(<<"v.any()">>)

\* the members of components.schemas the loop of generateValibotSchemas
\* goes through: none when there is no components interface, no schemas
\* member, or a schemas member that is not a type literal
SchemaMembers(sourceFile) ==
  LET found == SelectSeq(sourceFile.sub,
                 LAMBDA d : d.kind = "InterfaceDeclaration" /\ d.text = <<"components">>)
      schemas == IF found = <<>> THEN <<>>
                 ELSE SelectSeq(found[1].sub, LAMBDA m : m.text = <<"schemas">>)
  IN IF schemas # <<>> /\ schemas[1].sub[1].kind = "TypeLiteral"
     THEN schemas[1].sub[1].sub
     ELSE <<>>


-----------------------------------------------------------------------------
(* Sample documents explored: what JSON.parse can hand to generatePackages *)

Leaves == {Null, Num(1), Str(<<"x">>), Arr(<<>>), Obj(<<>>)}

DocKeys == {<<>>, <<"a">>, <<"b">>, <<"a", ".", "b">>, <<"1">>}

\* the two-key objects explored, in document order
KeyPairs ==
  { <<<<"a">>, <<"b">>>>, <<<<"a">>, <<"a", ".", "b">>>>,
    <<<<"b">>, <<"1">>>>, <<<<>>, <<"a">>>> }

RECURSIVE Docs(_)
Docs(d) ==
  IF d = 0 THEN Leaves
  ELSE LET sub == Docs(d - 1)
       IN sub
          \cup {Arr(<<x>>) : x \in sub}
          \cup {Arr(<<x, Num(1)>>) : x \in sub}
          \cup {Obj(<<<<k, x>>>>) : k \in DocKeys, x \in sub}
          \cup {Obj(<<<<p[1], x>>, <<p[2], Num(1)>>>>) : p \in KeyPairs, x \in sub}
          \cup {Obj(<<<<p[1], Num(1)>>, <<p[2], x>>>>) : p \in KeyPairs, x \in sub}

\* values with an undefined leaf, which JSON.parse never returns but the
\* `any` parameter of generateTypeFromValue admits
RECURSIVE UndefinedDocs(_)
UndefinedDocs(d) ==
  IF d = 0 THEN {Undefined}
  ELSE LET sub == UndefinedDocs(d - 1)
       IN sub
          \cup {Arr(<<x>>) : x \in sub}
          \cup {Obj(<<<<k, x>>>>) : k \in DocKeys, x \in sub}

\* documents with wide objects, for interface promotion
FillerSeq == <<"p", "q", "r", "s", "u", "v">>

Filler(n) == [i \in 1..n |-> <<<<FillerSeq[i]>>, Num(1)>>]

IfaceKeys == {<<"a">>, <<"a", "b">>, <<"w", "i", "d", "g", "e", "t", "D", "a", "t", "a">>}

SiblingKeys == {<<"a", "b">>, <<"A", "b">>, <<"a">>}

RECURSIVE WideDocs(_)
WideDocs(d) ==
  IF d = 0 THEN {Num(1), Arr(<<>>)} \cup {Obj(Filler(n)) : n \in 0..MaxKeys}
  ELSE LET sub == WideDocs(d - 1)
       IN sub
          \cup {Arr(<<x>>) : x \in sub}
          \cup {Obj(<<<<k, x>>>> \o Filler(n)) :
                  k \in IfaceKeys, x \in sub, n \in 0..(MaxKeys - 1)}

SiblingDocs ==
  UNION {{Obj(<<<<k1, Obj(Filler(n1))>>, <<k2, Obj(Filler(n2))>>>>) :
            k2 \in SiblingKeys \ {k1},
            n1 \in (MaxKeys - 1)..MaxKeys, n2 \in (MaxKeys - 1)..MaxKeys} :
         k1 \in SiblingKeys}

-----------------------------------------------------------------------------
(* OpenAPI documents explored: what JSON.parse can hand to                 *)
(* generateValibotSchemas                                                  *)

Field(name, x) == <<<<<<name>>, x>>>>

TypeNames == {"object", "array", "string", "number", "integer", "boolean", "date"}

StatusRef == <<"#", "/", "components", "/", "schemas", "/", "Status">>

UserRef == <<"#", "/", "components", "/", "schemas", "/", "User">>

MissingRef == <<"#", "/", "components", "/", "schemas", "/", "Missing">>

StatusEnum == Arr(<<Str(<<"active">>), Str(<<"inactive">>)>>)

EnumValues == {Str(<<"active">>), Str(<<"inactive">>), Num(1)}

EnumLists == UNION {[1..n -> EnumValues] : n \in 0..MaxEnum}

\* every combination of a type, an enum and a $ref, with no children
FlatNodes ==
  {Obj(tf \o ef \o rf) :
     tf \in {<<>>} \cup {Field("type", Str(<<t>>)) : t \in TypeNames},
     ef \in {<<>>, Field("enum", StatusEnum)},
     rf \in {<<>>, Field("$ref", Str(StatusRef))}}

EnumNodes ==
  {Obj(tf \o Field("enum", Arr(e))) :
     tf \in {<<>>, Field("type", Str(<<"string">>))}, e \in EnumLists}
  \cup {Obj(Field("enum", Str(<<"active">>))), Obj(Field("enum", Null))}

RefValues ==
  {Str(StatusRef), Str(UserRef), Str(MissingRef), Str(<<"Status">>),
   Str(<<"#", "/", "components", "/", "schemas", "/">>), Str(<<>>), Num(1)}

RefNodes == {Obj(Field("$ref", r)) : r \in RefValues}

NonObjectNodes == {Null, Num(1), Str(<<"x">>), Arr(<<>>)}

SmallNodes == {Obj(Field("type", Str(<<"string">>))), Obj(Field("$ref", Str(StatusRef)))}

RECURSIVE SchemaNodes(_)
SchemaNodes(d) ==
  IF d = 0 THEN FlatNodes \cup EnumNodes \cup RefNodes \cup NonObjectNodes
  ELSE LET sub == SchemaNodes(d - 1)
       IN sub
          \cup {Obj(Field("type", Str(<<"object">>)) \o extra
                      \o Field("properties", Obj(Field("id", x)))) :
                  x \in sub,
                  extra \in {<<>>, Field("enum", StatusEnum), Field("$ref", Str(StatusRef)),
                             Field("required", Arr(<<Str(<<"id">>)>>))}}
          \cup {Obj(Field("type", Str(<<"object">>)) \o extra
                      \o Field("properties", Obj(Field("id", x) \o Field("status", y)))) :
                  x \in sub, y \in SmallNodes,
                  extra \in {<<>>, Field("required", Arr(<<Str(<<"id">>)>>))}}
          \cup {Obj(Field("type", Str(<<"array">>)) \o extra \o Field("items", x)) :
                  x \in sub,
                  extra \in {<<>>, Field("enum", StatusEnum), Field("$ref", Str(StatusRef))}}
          \cup {Obj(Field("type", Str(<<"object">>)) \o Field("properties", Obj(<<>>)))}

OpenApi(entries) == Obj(Field("components", Obj(Field("schemas", Obj(entries)))))

PairNodes ==
  {Obj(Field("$ref", Str(StatusRef))), Obj(Field("$ref", Str(UserRef))),
   Obj(Field("$ref", Str(MissingRef))), Obj(Field("enum", StatusEnum)),
   Obj(Field("type", Str(<<"string">>))), Obj(Field("type", Str(<<"object">>))),
   Obj(Field("type", Str(<<"object">>))
         \o Field("properties", Obj(Field("status", Obj(Field("$ref", Str(StatusRef)))))))}

OpenApiDocs ==
  {Null, Obj(<<>>), Obj(Field("components", Obj(<<>>))), OpenApi(<<>>)}
  \cup {OpenApi(Field("User", x)) : x \in SchemaNodes(MaxNest)}
  \cup {OpenApi(Field(n[1], x) \o Field(n[2], y)) :
          n \in {<<"User", "Status">>, <<"Status", "User">>},
          x \in PairNodes, y \in PairNodes}

-----------------------------------------------------------------------------
(* generatePackages: the three generators, in the order it calls them *)

InitWith(docs) ==
  /\ json \in docs
  /\ pc = "parsed"
  /\ interfaces = <<>>
  /\ keys = <<>>
  /\ valueMappings = <<>>
  /\ openapi = Null
  /\ valibotSchema = <<>>
  /\ next = 0
  /\ exitCode = 0
  /\ data = Null
  /\ called = NoCall
  /\ program = "none"
  /\ input = NoInput
  /\ effects = <<>>
  /\ ast = NoAst

Init == InitWith(Docs(MaxDepth))

InitWide == InitWith(WideDocs(MaxDepth) \cup SiblingDocs)

GenerateInterfaces ==
  /\ pc = "parsed"
  /\ interfaces' = generateInterfacesFromJson(json)
  /\ pc' = "interfaces"
  /\ UNCHANGED <<json, keys, valueMappings, openapi, valibotSchema, next, exitCode, data, called, ast,
                 program, input, effects>>

GenerateKeys ==
  /\ pc = "interfaces"
  /\ keys' = generateKeyTypes(json, <<>>)
  /\ pc' = "keys"
  /\ UNCHANGED <<json, interfaces, valueMappings, openapi, valibotSchema, next, exitCode, data, called, ast,
                 program, input, effects>>

GenerateValueMappings ==
  /\ pc = "keys"
  /\ valueMappings' = generateValueTypeMapping(json)
  /\ pc' = "mappings"
  /\ UNCHANGED <<json, interfaces, keys, openapi, valibotSchema, next, exitCode, data, called, ast,
                 program, input, effects>>

Next == GenerateInterfaces \/ GenerateKeys \/ GenerateValueMappings

Spec == Init /\ [][Next]_vars

WideSpec == InitWide /\ [][Next]_vars

InitUndefined == InitWith(UndefinedDocs(MaxDepth))

\* the generators applied to a value with an undefined leaf
UndefinedSpec == InitUndefined /\ [][Next]_vars

-----------------------------------------------------------------------------
(* Reading the generated text back *)

\* the declarations of an interfaces text, in order
Decls(text) == Split(text, <<"\n\n">>[1])

NameEnd(decl) == CHOOSE i \in DOMAIN decl : decl[i] = " " /\ \A j \in 1..(i - 1) : decl[j] # " "

\* `export interface <name> <body>`
DeclName(decl) == SubSeq(decl, 2, NameEnd(decl) - 1)

DeclBody(decl) == SubSeq(decl, NameEnd(decl) + 1, Len(decl))

\* a key-path entry without its quotes
Unquote(entry) == SubSeq(entry, 2, Len(entry) - 1)

\* s occurs in t as a run of consecutive atoms
ContainsSeq(t, s) ==
  \E i \in 0..(Len(t) - Len(s)) : SubSeq(t, i + 1, i + Len(s)) = s

\* every value type inference is called on, starting at x
RECURSIVE Visited(_)
Visited(x) ==
  {x} \cup
    (IF x.t = "arr" /\ Len(x.v) > 0 THEN Visited(x.v[1])
     ELSE IF x.t = "obj" THEN UNION {Visited(x.v[i][2]) : i \in DOMAIN x.v}
     ELSE {})

-----------------------------------------------------------------------------
(* Key paths *)

\* the locations of a document in depth-first pre-order, each a sequence of
\* keys from the root; only plain objects have locations below them
RECURSIVE PreOrder(_, _)
PreOrder(x, segs) ==
  IF x.t # "obj" THEN <<>>
  ELSE LET es == ObjectEntries(x)
       IN Flatten([i \in DOMAIN es |->
            <<segs \o <<es[i][1]>>>> \o PreOrder(es[i][2], segs \o <<es[i][1]>>)])

DotJoined(segs) == Join(segs, <<".">>)

\* C1: for an object document, generateKeyTypes returns the dot-joined
\* paths of the document's keys in depth-first pre-order, a key's own path
\* before the paths of its descendants, which are listed exactly when the
\* key's value is a non-null, non-array object.
C1_PreOrderPaths ==
  (pc \in {"keys", "mappings"} /\ json.t = "obj") =>
    LET ref == PreOrder(json, <<>>)
    IN /\ Len(keys) = Len(ref)
       /\ \A i \in DOMAIN ref : Unquote(keys[i]) = DotJoined(ref[i])

\* the object keys at all depths reachable without crossing an array
RECURSIVE CountKeys(_)
CountKeys(x) ==
  IF x.t # "obj" THEN 0
  ELSE LET es == ObjectEntries(x)
           RECURSIVE Sum(_)
           Sum(i) == IF i = 0 THEN 0 ELSE 1 + CountKeys(es[i][2]) + Sum(i - 1)
       IN Sum(Len(es))

\* C2: for every root value, the number of paths generateKeyTypes returns
\* is the number of object keys reachable without crossing into array
\* elements; an array contributes nothing for its elements, also as root.
C2_PathCount ==
  pc \in {"keys", "mappings"} => Len(keys) = CountKeys(json)

-----------------------------------------------------------------------------
(* Interfaces *)

\* the object-valued fields reachable through object fields only that have
\* more than 3 own keys, in depth-first pre-order
RECURSIVE PromotedFields(_, _)
PromotedFields(x, segs) ==
  IF x.t # "obj" THEN <<>>
  ELSE LET es == ObjectEntries(x)
       IN Flatten([i \in DOMAIN es |->
            IF es[i][2].t = "obj"
            THEN (IF Len(es[i][2].v) > 3
                  THEN <<[path |-> segs \o <<es[i][1]>>, value |-> es[i][2]]>>
                  ELSE <<>>)
                 \o PromotedFields(es[i][2], segs \o <<es[i][1]>>)
            ELSE <<>>])

\* C3: the interfaces that follow WidgetData in the generated text are
\* exactly the object-valued fields with more than 3 keys reachable from
\* the root through object fields only, in depth-first pre-order.
C3_PromotedExactly ==
  pc # "parsed" =>
    LET ds == Tail(Decls(interfaces))
        ref == PromotedFields(json, <<>>)
    IN /\ Len(ds) = Len(ref)
       /\ \A i \in DOMAIN ref : DeclBody(ds[i]) = generateTypeFromValue(ref[i].value)

\* C4: the interface promoted for the object at key path s1.s2...sn is
\* named by the capitalized-word forms of s1..sn, each taken separately,
\* concatenated without separator.
C4_NamePerSegment ==
  (pc # "parsed" /\ json.t = "obj") =>
    LET ds == Tail(Decls(interfaces))
        ref == PromotedFields(json, <<>>)
    IN \A i \in DOMAIN ref :
         i \in DOMAIN ds =>
           DeclName(ds[i]) = Flatten([j \in DOMAIN ref[i].path |-> pascalCase(ref[i].path[j])])

\* C5: the interface names declared in the generated text are pairwise
\* different, the root declaration WidgetData included.
C5_NamesUnique ==
  pc # "parsed" =>
    LET ds == Decls(interfaces)
    IN \A i, j \in DOMAIN ds : i # j => DeclName(ds[i]) # DeclName(ds[j])

-----------------------------------------------------------------------------
(* Empty arrays *)

\* C10: type inference gives exactly any[] for an empty array wherever it
\* meets one: as the root (the body of WidgetData), as an object field (the
\* field's line reads any[]) and as the first element of an array (the
\* enclosing type is any[][]).
C10_EmptyArrayAny ==
  /\ (pc # "parsed" /\ json = Arr(<<>>)) =>
        DeclBody(Decls(interfaces)[1]) = <<"any[]">>
  /\ \A x \in Visited(json) :
        /\ x = Arr(<<>>) => generateTypeFromValue(x) = <<"any[]">>
        /\ (x.t = "arr" /\ Len(x.v) > 0 /\ x.v[1] = Arr(<<>>)) =>
             generateTypeFromValue(x) = <<"any[]", "[]">>
        /\ x.t = "obj" =>
             \A i \in DOMAIN x.v :
               x.v[i][2] = Arr(<<>>) =>
                 ContainsSeq(generateTypeFromValue(x),
                             <<"  ">> \o PropName(x.v[i][1]) \o <<": ", "any[]", ";">>)

\* an empty array met in all three positions, inference done
C10_Witness ==
  /\ pc = "mappings"
  /\ json = Obj(<<<<<<"a">>, Arr(<<Arr(<<>>)>>)>>, <<<<"b">>, Num(1)>>>>)

-----------------------------------------------------------------------------
(* Non-empty arrays *)

\* C11: for a non-empty array, type inference returns the inferred type of
\* the first element followed by [], so an array has the type of the
\* one-element array holding its first element whatever follows it; an
\* array of a string then a number is string[], also as the root.
C11_FirstElementType ==
  /\ \A x \in Visited(json) :
        (x.t = "arr" /\ Len(x.v) > 0) =>
          /\ generateTypeFromValue(x) = generateTypeFromValue(x.v[1]) \o <<"[]">>
          /\ generateTypeFromValue(x) = generateTypeFromValue(Arr(<<x.v[1]>>))
          /\ x.v[1].t = "str" => generateTypeFromValue(x) = <<"string", "[]">>
  /\ (pc # "parsed" /\ json.t = "arr" /\ Len(json.v) > 0) =>
        DeclBody(Decls(interfaces)[1]) = generateTypeFromValue(json.v[1]) \o <<"[]">>

\* a string followed by a number, as the root, interfaces generated
C11_Witness ==
  /\ pc = "interfaces"
  /\ json = Arr(<<Str(<<"x">>), Num(1)>>)
  /\ DeclBody(Decls(interfaces)[1]) = <<"string", "[]">>

-----------------------------------------------------------------------------
(* Object types *)

\* one field line of an inline object type: the key bare when it is a valid
\* identifier and double-quoted otherwise, then the inferred type
FieldLine(key, value) ==
  <<"  ">> \o (IF IsIdentifier(key) THEN key ELSE <<"\"">> \o key \o <<"\"">>)
    \o <<": ">> \o generateTypeFromValue(value) \o <<";">>

\* an inline object type with one line per entry of es, in the order of es
InlineObject(es) ==
  <<"{\n">> \o Join([i \in DOMAIN es |-> FieldLine(es[i][1], es[i][2])], <<"\n">>)
    \o <<"\n}">>

\* how many entries of the object x an engine enumerates before entry i:
\* the integer-like keys in ascending numeric order come first, the other
\* keys follow in insertion order
EnumeratedBefore(x, i) ==
  Cardinality({j \in DOMAIN x.v :
    \/ IsArrayIndex(x.v[j][1]) /\ ~IsArrayIndex(x.v[i][1])
    \/ /\ IsArrayIndex(x.v[j][1]) /\ IsArrayIndex(x.v[i][1])
       /\ IndexValue(x.v[j][1]) < IndexValue(x.v[i][1])
    \/ ~IsArrayIndex(x.v[j][1]) /\ ~IsArrayIndex(x.v[i][1]) /\ j < i})

\* the entries of the object x in own-property order
OwnPropertyOrder(x) ==
  [n \in DOMAIN x.v |-> x.v[CHOOSE i \in DOMAIN x.v : EnumeratedBefore(x, i) = n - 1]]

-----------------------------------------------------------------------------
(* Value type map *)

\* the entries of a value type map text, in order: an entry starts at the
\* atom that opens a quoted path and runs up to the line break before the
\* next one
MapEntries(text) ==
  LET starts == SelectSeq([i \in 1..Len(text) |-> i], LAMBDA i : text[i] = "  '")
  IN [n \in DOMAIN starts |->
        SubSeq(text, starts[n],
               IF n < Len(starts) THEN starts[n + 1] - 2 ELSE Len(text))]

PathEnd(entry) == CHOOSE i \in DOMAIN entry : entry[i] = "': "

\* `  '<path>': <type>;`
EntryPath(entry) == SubSeq(entry, 2, PathEnd(entry) - 1)

EntryType(entry) == SubSeq(entry, PathEnd(entry) + 1, Len(entry) - 1)

\* the values at the locations the key-path list names, in the order of the
\* list: every entry of the root, each followed by what lies below it when
\* it is a plain object
RECURSIVE LocatedValues(_, _)
LocatedValues(x, root) ==
  IF x.t = "obj" \/ (root /\ x.t = "arr")
  THEN LET es == ObjectEntries(x)
       IN Flatten([i \in DOMAIN es |-> <<es[i][2]>> \o LocatedValues(es[i][2], FALSE)])
  ELSE <<>>

\* C13: the value type map has the key paths of the key-path list, in the
\* same order, and the type recorded with each path is the inferred type
\* of the value at the location the path was listed for.
C13_MapMatchesKeys ==
  pc = "mappings" =>
    LET es == MapEntries(valueMappings)
        values == LocatedValues(json, TRUE)
    IN /\ Len(es) = Len(keys)
       /\ Len(values) = Len(keys)
       /\ \A i \in DOMAIN es :
            /\ EntryPath(es[i]) = Unquote(keys[i])
            /\ EntryType(es[i]) = generateTypeFromValue(values[i])

\* a nested document, both texts generated: three paths, three types
C13_Witness ==
  /\ pc = "mappings"
  /\ json = Obj(<<<<<<"a">>, Obj(<<<<<<"b">>, Str(<<"x">>)>>>>)>>, <<<<"b">>, Num(1)>>>>)
  /\ Len(keys) = 3
  /\ EntryPath(MapEntries(valueMappings)[2]) = <<"a", ".", "b">>
  /\ EntryType(MapEntries(valueMappings)[2]) = <<"string">>

-----------------------------------------------------------------------------
(* Key paths and the accessors *)

\* C14: every key path generateKeyTypes emits resolves, split at '.' and
\* descended one key per segment from the root, to an existing value:
\* Widget.has(path) is true on a Widget built from the same document.
C14_PathsResolve ==
  pc \in {"keys", "mappings"} =>
    \A i \in DOMAIN keys : has(json, Unquote(keys[i]))

\* C15: the empty string, the root path, is never an entry of the key-path
\* list nor of the value type map.
C15_RootNeverEmitted ==
  /\ pc \in {"keys", "mappings"} =>
        \A i \in DOMAIN keys : Unquote(keys[i]) # <<>>
  /\ pc = "mappings" =>
        \A i \in DOMAIN MapEntries(valueMappings) :
          EntryPath(MapEntries(valueMappings)[i]) # <<>>

-----------------------------------------------------------------------------
(* A Widget in use: constructed on a document, then called *)

\* the documents a Widget is constructed on
WidgetDocs ==
  { Null, Num(1), Obj(<<>>),
    Obj(<<<<<<"a">>, Num(1)>>>>),
    Obj(<<<<<<"a">>, Null>>>>),
    Obj(<<<<<<"a">>, Obj(<<<<<<"b">>, Num(1)>>>>)>>>>),
    Obj(<<<<<<"b">>, Arr(<<Num(1)>>)>>>>) }

\* the key paths passed to set, get and has
WidgetKeys == {<<>>, <<"a">>, <<"a", ".", "b">>, <<"b", ".", "0">>}

\* the values passed to set
WidgetValues == {Num(2), Null}

\* constructor: this.data = structuredClone(data)
InitWidget ==
  /\ data \in WidgetDocs
  /\ called = NoCall
  /\ program = "none"
  /\ input = NoInput
  /\ effects = <<>>
  /\ pc = "widget"
  /\ json = Null
  /\ interfaces = <<>>
  /\ keys = <<>>
  /\ valueMappings = <<>>
  /\ openapi = Null
  /\ valibotSchema = <<>>
  /\ next = 0
  /\ exitCode = 0
  /\ ast = NoAst

WidgetSet ==
  /\ pc = "widget"
  /\ \E key \in WidgetKeys, value \in WidgetValues :
       LET r == set(data, key, value)
       IN /\ data' = r.value
          /\ called' = Call("set", key, value, Undefined, ~r.ok)
  /\ UNCHANGED <<json, pc, interfaces, keys, valueMappings, openapi, valibotSchema,
                 next, exitCode, ast, program, input, effects>>

WidgetGet ==
  /\ pc = "widget"
  /\ \E key \in WidgetKeys :
       called' = Call("get", key, Undefined, get(data, key), FALSE)
  /\ UNCHANGED <<json, pc, interfaces, keys, valueMappings, openapi, valibotSchema,
                 next, exitCode, data, ast, program, input, effects>>

WidgetHas ==
  /\ pc = "widget"
  /\ \E key \in WidgetKeys :
       called' = Call("has", key, Undefined, Bool(has(data, key)), FALSE)
  /\ UNCHANGED <<json, pc, interfaces, keys, valueMappings, openapi, valibotSchema,
                 next, exitCode, data, ast, program, input, effects>>

NextWidget == WidgetSet \/ WidgetGet \/ WidgetHas

WidgetSpec == InitWidget /\ [][NextWidget]_vars

\* C16: in every state of a Widget, after any sequence of set calls, has('')
\* is true and get('') returns the whole current data; a call of has('') or
\* get('') answers accordingly.
C16_RootKey ==
  pc = "widget" =>
    /\ has(data, <<>>)
    /\ get(data, <<>>) = data
    /\ (called.op = "get" /\ called.key = <<>>) => called.result = data
    /\ (called.op = "has" /\ called.key = <<>>) => called.result = Bool(TRUE)

\* get('') called after set('', ...) and set('a.b', ...) have changed the data
C16_Witness ==
  /\ pc = "widget"
  /\ called.op = "get" /\ called.key = <<>>
  /\ called.result = data
  /\ HasKey(data, <<>>)
  /\ Prop(Prop(data, <<"a">>), <<"b">>) = Num(2)

-----------------------------------------------------------------------------
(* Undefined leaves *)

\* an undefined value is among the values type inference is called on
HasUndefinedLeaf(x) == \E y \in Visited(x) : y = Undefined

-----------------------------------------------------------------------------
(* generateValibotSchemas: the emission loop *)

InitValibot ==
  /\ openapi \in OpenApiDocs
  /\ pc = "parsed"
  /\ valibotSchema = <<>>
  /\ next = 0
  /\ exitCode = 0
  /\ data = Null
  /\ called = NoCall
  /\ program = "none"
  /\ input = NoInput
  /\ effects = <<>>
  /\ ast = NoAst
  /\ json = Null
  /\ interfaces = <<>>
  /\ keys = <<>>
  /\ valueMappings = <<>>

\* let valibotSchema = `import ...`; const components = openapi.components
StartEmit ==
  /\ pc = "parsed"
  /\ openapi.t # "null"
  /\ valibotSchema' = ImportLine
  /\ next' = 1
  /\ pc' = "emitting"
  /\ UNCHANGED <<json, interfaces, keys, valueMappings, openapi, exitCode, data, called, ast,
                 program, input, effects>>

\* one turn of the for-in loop
EmitSchema ==
  /\ pc = "emitting"
  /\ next <= Len(SchemaEntries(openapi))
  /\ LET e == SchemaEntries(openapi)[next]
         r == transformSchema(e[2], openapi)
     IN /\ r.ok
        /\ valibotSchema' = valibotSchema \o ExportConst(e[1], r.text)
  /\ next' = next + 1
  /\ UNCHANGED <<json, interfaces, keys, valueMappings, openapi, pc, exitCode, data, called, ast,
                 program, input, effects>>

\* the loop ends
EmitDone ==
  /\ pc = "emitting"
  /\ next > Len(SchemaEntries(openapi))
  /\ pc' = "emitted"
  /\ UNCHANGED <<json, interfaces, keys, valueMappings, openapi, valibotSchema, next, exitCode, data, called, ast,
                 program, input, effects>>

\* an exception reaches the catch block: process.exit(1)
Catch ==
  /\ \/ pc = "parsed" /\ openapi.t = "null"
     \/ /\ pc = "emitting"
        /\ next <= Len(SchemaEntries(openapi))
        /\ ~transformSchema(SchemaEntries(openapi)[next][2], openapi).ok
  /\ pc' = "failed"
  /\ exitCode' = 1
  /\ UNCHANGED <<json, interfaces, keys, valueMappings, openapi, valibotSchema, next, data, called, ast,
                 program, input, effects>>

NextValibot == StartEmit \/ EmitSchema \/ EmitDone \/ Catch

ValibotSpec == InitValibot /\ [][NextValibot]_vars

-----------------------------------------------------------------------------
(* Type trees explored: what openapiTS can hand to the type-AST front end *)

MaxAstDepth == 2

AstLeaves ==
  { Keyword("StringKeyword"), Keyword("NumberKeyword"), Keyword("BooleanKeyword"),
    Keyword("UnionType"), TypeLiteral(<<>>),
    TypeReference("Identifier", "Status"), TypeReference("QualifiedName", "Status"),
    IndexedAccessType(Keyword("TypeReference"), LiteralType("Status")),
    IndexedAccessType(Keyword("TypeReference"), Keyword("NumberKeyword")) }

RECURSIVE AstTypes(_)
AstTypes(d) ==
  IF d = 0 THEN AstLeaves
  ELSE LET sub == AstTypes(d - 1)
       IN sub
          \cup {ArrayTypeNode(x) : x \in sub}
          \cup {TypeLiteral(<<PropertySignature("id", o, x)>>) : o \in BOOLEAN, x \in sub}
          \cup {TypeLiteral(<<PropertySignature("id", o, x),
                              PropertySignature("name", ~o, Keyword("StringKeyword"))>>) :
                  o \in BOOLEAN, x \in sub}
          \cup {TypeLiteral(<<PropertySignature("id", TRUE, x),
                              IndexSignature(Keyword("StringKeyword"))>>) : x \in sub}

SourceFile(declarations) == Node("SourceFile", <<>>, FALSE, declarations)

\* a source file whose components interface has the given schemas
Components(members) ==
  SourceFile(<<InterfaceDeclaration("paths", <<>>),
               InterfaceDeclaration("components",
                 <<PropertySignature("schemas", FALSE, TypeLiteral(members))>>)>>)

AstDocs ==
  { SourceFile(<<>>),
    SourceFile(<<InterfaceDeclaration("components", <<>>)>>),
    SourceFile(<<InterfaceDeclaration("components",
                   <<PropertySignature("schemas", FALSE, Keyword("StringKeyword"))>>)>>) }
  \cup {Components(<<PropertySignature("User", o, x)>>) :
          o \in BOOLEAN, x \in AstTypes(MaxAstDepth)}
  \cup {Components(<<IndexSignature(Keyword("StringKeyword")),
                     PropertySignature("User", FALSE, x),
                     PropertySignature("Status", FALSE, Keyword("StringKeyword"))>>) :
          x \in AstTypes(1)}

-----------------------------------------------------------------------------
(* type-AST front end: the emission loop of generateValibotSchemas *)

InitAst ==
  /\ ast \in AstDocs
  /\ pc = "parsed"
  /\ valibotSchema = <<>>
  /\ next = 0
  /\ exitCode = 0
  /\ json = Null
  /\ interfaces = <<>>
  /\ keys = <<>>
  /\ valueMappings = <<>>
  /\ openapi = Null
  /\ data = Null
  /\ called = NoCall
  /\ program = "none"
  /\ input = NoInput
  /\ effects = <<>>

\* let valibotSchema = `import ...`; the components interface is looked up
AstStart ==
  /\ pc = "parsed"
  /\ valibotSchema' = ImportLine
  /\ next' = 1
  /\ pc' = "emitting"
  /\ UNCHANGED <<json, interfaces, keys, valueMappings, openapi, exitCode, data, called, ast,
                 program, input, effects>>

\* one turn of the for-of loop: a property signature adds a statement, any
\* other member adds nothing
AstEmit ==
  /\ pc = "emitting"
  /\ next <= Len(SchemaMembers(ast))
  /\ LET member == SchemaMembers(ast)[next]
         r == IF member.kind = "PropertySignature"
              THEN transformNode(member.sub[1])
              ELSE Returns(<<>>)
     IN /\ r.ok
        /\ valibotSchema' =
             IF member.kind = "PropertySignature"
             THEN valibotSchema \o ExportConst(member.text, r.text)
             ELSE valibotSchema
  /\ next' = next + 1
  /\ UNCHANGED <<json, interfaces, keys, valueMappings, openapi, pc, exitCode, data, called, ast,
                 program, input, effects>>

\* the loop is over: the text is written
AstDone ==
  /\ pc = "emitting"
  /\ next > Len(SchemaMembers(ast))
  /\ pc' = "emitted"
  /\ UNCHANGED <<json, interfaces, keys, valueMappings, openapi, valibotSchema, next,
                 exitCode, data, called, ast, program, input, effects>>

\* catch (error): process.exit(1)
AstCatch ==
  /\ pc = "emitting"
  /\ next <= Len(SchemaMembers(ast))
  /\ SchemaMembers(ast)[next].kind = "PropertySignature"
  /\ ~transformNode(SchemaMembers(ast)[next].sub[1]).ok
  /\ pc' = "failed"
  /\ exitCode' = 1
  /\ UNCHANGED <<json, interfaces, keys, valueMappings, openapi, valibotSchema, next,
                 data, called, ast, program, input, effects>>

NextAst == AstStart \/ AstEmit \/ AstDone \/ AstCatch

AstSpec == InitAst /\ [][NextAst]_vars

-----------------------------------------------------------------------------
(* A whole run of generatePackages or of generateValibotSchemas, with its   *)
(* reads, directories, files and console lines                             *)

\* one visible effect of a run: a directory created ("mkdir"), the line
\* ensureDir logs when fs.mkdir fails ("mkdirError"), the warning of
\* formatCode ("warn"), a file written ("write"), the success lines
\* ("success") and the line of the catch block with the error ("error")
Effect(kind, path, text) == [kind |-> kind, path |-> path, text |-> text]

\* path.join(packagesDir, ...), from the repository root
packagesDir == <<"packages">>

typesDir == packagesDir \o <<"widget-types">>

widgetDir == packagesDir \o <<"widget">>

valibotOutputPath == packagesDir \o <<"widget-valibot", "src", "index.ts">>

\* path.dirname
Dirname(path) == SubSeq(path, 1, Len(path) - 1)

\* one step of a run: what it does, on which path, with which text and
\* parser
Step(kind, path, content, parser) ==
  [kind |-> kind, path |-> path, content |-> content, parser |-> parser]

\* generatePackages with the read and the parse moved behind the first
\* directories
PackageStepsDirsFirst ==
  << Step("ensureDir", packagesDir, "", ""),
     Step("ensureDir", typesDir, "", ""),
     Step("ensureDir", typesDir \o <<"src">>, "", ""),
     Step("read", <<"codegen", "input.json">>, "", ""),
     Step("generate", <<>>, "", ""),
     Step("write", typesDir \o <<"src", "index.ts">>, "typesContent", "typescript"),
     Step("write", typesDir \o <<"package.json">>, "typesPackageJson", "json"),
     Step("write", typesDir \o <<"tsconfig.json">>, "typesTsConfig", "json"),
     Step("write", typesDir \o <<"tsup.config.ts">>, "tsupConfigTypes", "typescript"),
     Step("ensureDir", widgetDir, "", ""),
     Step("ensureDir", widgetDir \o <<"src">>, "", ""),
     Step("write", widgetDir \o <<"src", "index.ts">>, "widgetContent", "typescript"),
     Step("write", widgetDir \o <<"package.json">>, "widgetPackageJson", "json"),
     Step("write", widgetDir \o <<"tsconfig.json">>, "widgetTsConfig", "json"),
     Step("write", widgetDir \o <<"tsup.config.ts">>, "tsupConfigWidget", "typescript"),
     Step("writeRaw", typesDir \o <<"README.md">>, "typesReadme", ""),
     Step("writeRaw", widgetDir \o <<"README.md">>, "widgetReadme", ""),
     Step("success", <<>>, "", "") >>

\* the body of generatePackages, statement by statement
PackageSteps ==
  << Step("read", <<"codegen", "input.json">>, "", ""),
     Step("ensureDir", packagesDir, "", ""),
     Step("ensureDir", typesDir, "", ""),
     Step("ensureDir", typesDir \o <<"src">>, "", ""),
     Step("generate", <<>>, "", ""),
     Step("write", typesDir \o <<"src", "index.ts">>, "typesContent", "typescript"),
     Step("write", typesDir \o <<"package.json">>, "typesPackageJson", "json"),
     Step("write", typesDir \o <<"tsconfig.json">>, "typesTsConfig", "json"),
     Step("write", typesDir \o <<"tsup.config.ts">>, "tsupConfigTypes", "typescript"),
     Step("ensureDir", widgetDir, "", ""),
     Step("ensureDir", widgetDir \o <<"src">>, "", ""),
     Step("write", widgetDir \o <<"src", "index.ts">>, "widgetContent", "typescript"),
     Step("write", widgetDir \o <<"package.json">>, "widgetPackageJson", "json"),
     Step("write", widgetDir \o <<"tsconfig.json">>, "widgetTsConfig", "json"),
     Step("write", widgetDir \o <<"tsup.config.ts">>, "tsupConfigWidget", "typescript"),
     Step("writeRaw", typesDir \o <<"README.md">>, "typesReadme", ""),
     Step("writeRaw", widgetDir \o <<"README.md">>, "widgetReadme", ""),
     Step("success", <<>>, "", "") >>

\* the body of generateValibotSchemas of the raw front end
ValibotSteps ==
  << Step("read", <<"codegen", "input.json">>, "", ""),
     Step("transform", <<>>, "", ""),
     Step("mkdir", Dirname(valibotOutputPath), "", ""),
     Step("write", valibotOutputPath, "valibotSchema", "typescript"),
     Step("success", <<>>, "", "") >>

Steps == IF program = "packages" THEN PackageSteps ELSE ValibotSteps

\* the template of the types module
typesContent(ifaces, ks, mappings) ==
  <<"// Auto-generated types from input.json\n">> \o ifaces
    \o <<"\n\nexport type WidgetKey = ">> \o Join(ks, <<" | ">>)
    \o <<";\n\ntype WidgetValueMap = {\n">> \o mappings
    \o <<"\n};\n\nexport type WidgetValue<K extends WidgetKey> = ...;\n">>

\* the text a write step hands to the formatter or to the file
Content(step) ==
  IF step.content = "typesContent" THEN typesContent(interfaces, keys, valueMappings)
  ELSE IF step.content = "valibotSchema" THEN valibotSchema
  ELSE <<step.content>>

\* prettier's format: its output stands for a text other than its input
format(code, parser) == <<"prettier", parser>> \o code

\* formatCode letting the formatter's exception through
formatCodeRethrows(code, parser, formatterThrows) ==
  IF formatterThrows THEN Throws ELSE Returns(format(code, parser))

\* try { return await format(...) } catch { console.warn(...); return code }
formatCode(code, parser, formatterThrows) ==
  IF formatterThrows THEN Returns(code) ELSE Returns(format(code, parser))

\* the for-in loop of generateValibotSchemas from entry i on
RECURSIVE EmitFrom(_, _, _)
EmitFrom(doc, i, text) ==
  IF i > Len(SchemaEntries(doc)) THEN Returns(text)
  ELSE LET e == SchemaEntries(doc)[i]
           r == transformSchema(e[2], doc)
       IN IF r.ok THEN EmitFrom(doc, i + 1, text \o ExportConst(e[1], r.text)) ELSE Throws

\* the import line and the loop; openapi.components throws on null
BuildSchemas(doc) == IF doc.t = "null" THEN Throws ELSE EmitFrom(doc, 1, ImportLine)

\* the directories the run has created: fs.mkdir with recursive: true
\* creates the missing ancestors too
Dirs ==
  UNION {{SubSeq(effects[i].path, 1, n) : n \in 0..Len(effects[i].path)} :
           i \in {j \in DOMAIN effects : effects[j].kind = "mkdir"}}

\* the files the run has written
Files == {effects[i].path : i \in {j \in DOMAIN effects : effects[j].kind = "write"}}

\* the input files explored: unreadable, not JSON, and parsed values
RunInputs(prog) ==
  {InputFile(FALSE, FALSE, Null), InputFile(TRUE, FALSE, Null)}
  \cup {InputFile(TRUE, TRUE, v) :
          v \in IF prog = "packages"
                THEN {Obj(<<<<<<"a">>, Num(1)>>>>)}
                ELSE {Null,
                      OpenApi(Field("User", Obj(Field("type", Str(<<"string">>))))),
                      OpenApi(Field("User", Obj(Field("type", Str(<<"object">>)))))}}

InitRun ==
  /\ program \in {"packages", "valibot"}
  /\ input \in RunInputs(program)
  /\ effects = <<>>
  /\ pc = "run"
  /\ next = 1
  /\ exitCode = 0
  /\ json = Null
  /\ interfaces = <<>>
  /\ keys = <<>>
  /\ valueMappings = <<>>
  /\ openapi = Null
  /\ valibotSchema = <<>>
  /\ data = Null
  /\ called = NoCall
  /\ ast = NoAst

\* the statement is over and the next one follows
Continue(after) ==
  /\ effects' = after
  /\ next' = next + 1
  /\ UNCHANGED <<pc, exitCode>>

\* catch (error): console.error(..., error); process.exit(1)
Abort(cause, after) ==
  /\ effects' = Append(after, Effect("error", <<>>, <<cause>>))
  /\ pc' = "failed"
  /\ exitCode' = 1
  /\ UNCHANGED next

AtStep(kind) == pc = "run" /\ next <= Len(Steps) /\ Steps[next].kind = kind

\* fs.readFile and JSON.parse
ReadInput ==
  /\ AtStep("read")
  /\ IF ~input.readable THEN Abort("read", effects) /\ UNCHANGED <<json, openapi>>
     ELSE IF ~input.valid THEN Abort("parse", effects) /\ UNCHANGED <<json, openapi>>
     ELSE /\ Continue(effects)
          /\ json' = IF program = "packages" THEN input.value ELSE json
          /\ openapi' = IF program = "packages" THEN openapi ELSE input.value
  /\ UNCHANGED <<interfaces, keys, valueMappings, valibotSchema, data, called, ast,
                 program, input>>

\* ensureDir: a failure of fs.mkdir is logged and the run goes on
EnsureDir ==
  /\ AtStep("ensureDir")
  /\ \E mkdirFails \in BOOLEAN :
       Continue(Append(effects,
                       Effect(IF mkdirFails THEN "mkdirError" ELSE "mkdir",
                              Steps[next].path, <<>>)))
  /\ UNCHANGED <<json, interfaces, keys, valueMappings, openapi, valibotSchema, data,
                 called, ast, program, input>>

\* await fs.mkdir(..., { recursive: true }) inside the try block
Mkdir ==
  /\ AtStep("mkdir")
  /\ \E mkdirFails \in BOOLEAN :
       IF mkdirFails THEN Abort("mkdir", effects)
       ELSE Continue(Append(effects, Effect("mkdir", Steps[next].path, <<>>)))
  /\ UNCHANGED <<json, interfaces, keys, valueMappings, openapi, valibotSchema, data,
                 called, ast, program, input>>

\* the three generators of generatePackages
Generate ==
  /\ AtStep("generate")
  /\ interfaces' = generateInterfacesFromJson(json)
  /\ keys' = generateKeyTypes(json, <<>>)
  /\ valueMappings' = generateValueTypeMapping(json)
  /\ Continue(effects)
  /\ UNCHANGED <<json, openapi, valibotSchema, data, called, ast, program, input>>

\* the import line and the loop over components.schemas
Transform ==
  /\ AtStep("transform")
  /\ LET r == BuildSchemas(openapi)
     IN IF r.ok THEN valibotSchema' = r.text /\ Continue(effects)
        ELSE Abort("transform", effects) /\ UNCHANGED valibotSchema
  /\ UNCHANGED <<json, interfaces, keys, valueMappings, openapi, data, called, ast,
                 program, input>>

\* await fs.writeFile(path, await formatCode(text, parser)): a file is
\* written only into a directory that exists
WriteFile ==
  /\ AtStep("write")
  /\ \E formatterThrows \in BOOLEAN, writeFails \in BOOLEAN :
       LET step == Steps[next]
           r == formatCode(Content(step), step.parser, formatterThrows)
           warned == IF formatterThrows
                     THEN Append(effects, Effect("warn", <<>>, <<>>))
                     ELSE effects
       IN IF ~r.ok THEN Abort("format", effects)
          ELSE IF writeFails \/ Dirname(step.path) \notin Dirs THEN Abort("write", warned)
          ELSE Continue(Append(warned, Effect("write", step.path, r.text)))
  /\ UNCHANGED <<json, interfaces, keys, valueMappings, openapi, valibotSchema, data,
                 called, ast, program, input>>

\* await fs.writeFile(path, text) for the README files
WriteReadme ==
  /\ AtStep("writeRaw")
  /\ \E writeFails \in BOOLEAN :
       LET step == Steps[next]
       IN IF writeFails \/ Dirname(step.path) \notin Dirs THEN Abort("write", effects)
          ELSE Continue(Append(effects, Effect("write", step.path, Content(step))))
  /\ UNCHANGED <<json, interfaces, keys, valueMappings, openapi, valibotSchema, data,
                 called, ast, program, input>>

\* console.log of the success lines; the function returns
LogSuccess ==
  /\ AtStep("success")
  /\ effects' = Append(effects, Effect("success", <<>>, <<>>))
  /\ next' = next + 1
  /\ pc' = "done"
  /\ UNCHANGED <<json, interfaces, keys, valueMappings, openapi, valibotSchema, exitCode,
                 data, called, ast, program, input>>

NextRun ==
  \/ ReadInput \/ EnsureDir \/ Mkdir \/ Generate \/ Transform
  \/ WriteFile \/ WriteReadme \/ LogSuccess

RunSpec == InitRun /\ [][NextRun]_vars

-----------------------------------------------------------------------------
(* Reading the generated validators back *)

\* the `export const` statements of the text built so far, in order
Statements(text) ==
  LET body == Tail(text)
      parts == Split(body, ";\n\n")
  IN SubSeq(parts, 1, Len(parts) - 1)

EqualsSign(st) == CHOOSE i \in DOMAIN st : st[i] = " = " /\ \A j \in 1..(i - 1) : st[j] # " = "

\* `export const <name> = <expression>`
StName(st) == SubSeq(st, 2, EqualsSign(st) - 1)

StExpr(st) == SubSeq(st, EqualsSign(st) + 1, Len(st))

\* components.schemas as the document lists it
DeclaredSchemas(doc) ==
  LET schemas == Prop(Prop(doc, <<"components">>), <<"schemas">>)
  IN IF schemas.t = "obj" THEN schemas.v ELSE <<>>

\* the statements emitted so far
Emitted == IF pc = "emitted" THEN Len(DeclaredSchemas(openapi)) ELSE next - 1

CarriesEnum(node) == Prop(node, <<"enum">>).t = "arr"

CarriesRef(node) == Prop(node, <<"$ref">>).t = "str" /\ Prop(node, <<"$ref">>).v # <<>>

\* rule r of the decision list applies to the node
Matches(r, node) ==
  CASE r = 1 -> Type(node) = Str(<<"object">>)
    [] r = 2 -> Type(node) = Str(<<"array">>)
    [] r = 3 -> CarriesEnum(node)
    [] r = 4 -> Type(node) = Str(<<"string">>)
    [] r = 5 -> Type(node) \in {Str(<<"number">>), Str(<<"integer">>)}
    [] r = 6 -> Type(node) = Str(<<"boolean">>)
    [] r = 7 -> CarriesRef(node)
    [] OTHER -> TRUE

FirstRule(node) == CHOOSE r \in 1..8 : Matches(r, node) /\ \A q \in 1..(r - 1) : ~Matches(q, node)

ValidatorCalls ==
  {"v.object({ ", "v.array(", "v.union([", "v.literal(\"", "v.string()", "v.number()",
   "v.boolean()", "v.any()"}

\* the rule a rendered expression comes from
RuleOfText(text) ==
  CASE text # <<>> /\ text[1] = "v.object({ " -> 1
    [] text # <<>> /\ text[1] = "v.array(" -> 2
    [] text # <<>> /\ text[1] = "v.union([" -> 3
    [] text = <<"v.string()">> -> 4
    [] text = <<"v.number()">> -> 5
    [] text = <<"v.boolean()">> -> 6
    [] text = <<"v.any()">> -> 8
    [] OTHER -> 7

\* the direct children transformSchema renders inside an object or array
Children(node) ==
  IF Type(node) = Str(<<"object">>)
  THEN LET es == ObjectEntries(Prop(node, <<"properties">>)) IN {es[i][2] : i \in DOMAIN es}
  ELSE IF Type(node) = Str(<<"array">>) THEN {Prop(node, <<"items">>)}
  ELSE {}

\* C6: transformSchema renders a node by the first rule that matches, in
\* the order object, array, enum, string, number/integer, boolean, $ref,
\* fallback: every emitted constant, and every child rendered inside it,
\* comes from the earliest matching rule of its node.
C6_FirstMatchWins ==
  (pc \in {"emitting", "emitted", "failed"} /\ next >= 1) =>
    LET st == Statements(valibotSchema)
        declared == DeclaredSchemas(openapi)
    IN \A i \in 1..Emitted :
         /\ RuleOfText(StExpr(st[i])) = FirstRule(declared[i][2])
         /\ \A c \in Children(declared[i][2]) :
              RuleOfText(transformSchema(c, openapi).text) = FirstRule(c)

\* string with enum, object with enum and a typed node with a $ref, emitted
C6_Witness ==
  /\ pc = "emitted"
  /\ openapi = OpenApi(Field("User",
       Obj(Field("type", Str(<<"object">>)) \o Field("enum", StatusEnum)
             \o Field("properties", Obj(Field("id",
                  Obj(Field("type", Str(<<"string">>)) \o Field("enum", StatusEnum)
                        \o Field("$ref", Str(StatusRef)))))))))
  /\ StExpr(Statements(valibotSchema)[1])[1] = "v.object({ "

\* the literals of a rendered union, in order
LiteralsOf(expr) ==
  LET inner == SubSeq(expr, 2, Len(expr) - 1)
  IN IF inner = <<>> THEN <<>> ELSE Split(inner, ", ")

\* C7: a node carrying an enum (type neither object nor array) is rendered
\* as v.union([...]) holding exactly one v.literal("...") per enum value, in
\* the declared order.
C7_EnumLiterals ==
  (pc \in {"emitting", "emitted", "failed"} /\ next >= 1) =>
    LET st == Statements(valibotSchema)
        declared == DeclaredSchemas(openapi)
    IN \A i \in 1..Emitted :
         LET node == declared[i][2]
             values == Prop(node, <<"enum">>).v
             expr == StExpr(st[i])
         IN (CarriesEnum(node) /\ ~Matches(1, node) /\ ~Matches(2, node)) =>
              /\ expr[1] = "v.union(["
              /\ expr[Len(expr)] = "])"
              /\ Len(LiteralsOf(expr)) = Len(values)
              /\ \A j \in DOMAIN values :
                   LiteralsOf(expr)[j]
                     = <<"v.literal(\"">> \o TemplateString(values[j]) \o <<"\")">>

\* enum ["active","inactive"] emitted as the two-literal union
C7_Witness ==
  /\ pc = "emitted"
  /\ openapi = OpenApi(Field("User", Obj(Field("enum", StatusEnum))))
  /\ StExpr(Statements(valibotSchema)[1])
       = <<"v.union([", "v.literal(\"", "active", "\")", ", ",
           "v.literal(\"", "inactive", "\")", "])">>

\* what follows the last '/' of a reference target
LastSegment(ref) ==
  LET slashes == {i \in DOMAIN ref : ref[i] = "/"}
      last == IF slashes = {} THEN 0 ELSE CHOOSE i \in slashes : \A j \in slashes : j <= i
  IN SubSeq(ref, last + 1, Len(ref))

\* C8: a node whose only recognised feature is a $ref is rendered as the
\* last '/'-separated segment of the target, a bare identifier: the text
\* holds no validator call and not the rendering of the referenced schema.
C8_RefIsBareName ==
  (pc \in {"emitting", "emitted", "failed"} /\ next >= 1) =>
    LET st == Statements(valibotSchema)
        declared == DeclaredSchemas(openapi)
    IN \A i \in 1..Emitted :
         LET node == declared[i][2]
             expr == StExpr(st[i])
             target == Referenced(Prop(node, <<"$ref">>).v, openapi)
         IN (node.t = "obj" /\ FirstRule(node) = 7) =>
              /\ expr = LastSegment(Prop(node, <<"$ref">>).v)
              /\ \A k \in DOMAIN expr : expr[k] \notin ValidatorCalls
              /\ (target.t = "obj" /\ FirstRule(target) # 7
                    /\ transformSchema(target, openapi).ok) =>
                   ~ContainsSeq(expr, transformSchema(target, openapi).text)

\* User refers to Status, Status is a string schema: User is the bare name
C8_Witness ==
  /\ pc = "emitted"
  /\ openapi = OpenApi(Field("User", Obj(Field("$ref", Str(StatusRef))))
                         \o Field("Status", Obj(Field("type", Str(<<"string">>)))))
  /\ StExpr(Statements(valibotSchema)[1]) = <<"Status">>

-----------------------------------------------------------------------------
(* Objects and the fallback in the raw front end *)

\* a node and every node transformSchema renders inside it
RECURSIVE Rendered(_)
Rendered(node) == {node} \cup UNION {Rendered(c) : c \in Children(node)}

\* C18: for an object schema, transformSchema returns v.object({ ... })
\* listing every entry of properties, in the order of the document, as
\* `key: <transformSchema(value)>`; no field is wrapped in v.optional,
\* whatever the required list of the node names or leaves out.
C18_NoOptionalFields ==
  (pc \in {"emitting", "emitted", "failed"} /\ next >= 1) =>
    LET st == Statements(valibotSchema)
        declared == DeclaredSchemas(openapi)
    IN \A i \in 1..Emitted :
         /\ \A k \in DOMAIN StExpr(st[i]) : StExpr(st[i])[k] # "v.optional("
         /\ \A node \in Rendered(declared[i][2]) :
              (node.t = "obj" /\ Matches(1, node)) =>
                LET props == Prop(node, <<"properties">>).v
                    expr == IF node = declared[i][2] THEN StExpr(st[i])
                            ELSE transformSchema(node, openapi).text
                IN expr = <<"v.object({ ">>
                            \o Join([j \in DOMAIN props |->
                                       props[j][1] \o <<": ">>
                                         \o transformSchema(props[j][2], openapi).text],
                                    <<", ">>)
                            \o <<" })">>

\* an object whose required list names id and leaves out status, emitted
C18_Witness ==
  /\ pc = "emitted"
  /\ openapi = OpenApi(Field("User",
       Obj(Field("type", Str(<<"object">>))
             \o Field("required", Arr(<<Str(<<"id">>)>>))
             \o Field("properties",
                   Obj(Field("id", Obj(Field("type", Str(<<"number">>))))
                         \o Field("status", Obj(Field("type", Str(<<"string">>)))))))))
  /\ StExpr(Statements(valibotSchema)[1])
       = <<"v.object({ ", "id", ": ", "v.number()", ", ", "status", ": ", "v.string()", " })">>

\* a schema object with no type among object, array, string, number,
\* integer and boolean, no enum and no $ref
MatchesNoRule(node) ==
  /\ node.t = "obj"
  /\ Type(node) \notin {Str(<<t>>) : t \in {"object", "array", "string", "number",
                                            "integer", "boolean"}}
  /\ ~HasKey(node, <<"enum">>)
  /\ ~HasKey(node, <<"$ref">>)

\* C20: a schema node that matches none of the rules is rendered as
\* v.any(): as an emitted constant, as the field of an object (`key:
\* v.any()`) and as the items of an array (v.array(v.any())), at every
\* depth of an emitted schema.
C20_FallbackAny ==
  (pc \in {"emitting", "emitted", "failed"} /\ next >= 1) =>
    LET st == Statements(valibotSchema)
        declared == DeclaredSchemas(openapi)
    IN \A i \in 1..Emitted :
         /\ MatchesNoRule(declared[i][2]) => StExpr(st[i]) = <<"v.any()">>
         /\ \A node \in Rendered(declared[i][2]) :
              LET expr == IF node = declared[i][2] THEN StExpr(st[i])
                          ELSE transformSchema(node, openapi).text
                  props == Prop(node, <<"properties">>).v
              IN /\ MatchesNoRule(node) => expr = <<"v.any()">>
                 /\ (node.t = "obj" /\ Matches(1, node)) =>
                      \A j \in DOMAIN props :
                        MatchesNoRule(props[j][2]) =>
                          ContainsSeq(expr, props[j][1] \o <<": ", "v.any()">>)
                 /\ (node.t = "obj" /\ ~Matches(1, node) /\ Matches(2, node)
                       /\ MatchesNoRule(Prop(node, <<"items">>))) =>
                      expr = <<"v.array(", "v.any()", ")">>

\* a node of unrecognised type as the first field of an emitted object
C20_Witness ==
  /\ pc = "emitted"
  /\ openapi = OpenApi(Field("User",
       Obj(Field("type", Str(<<"object">>))
             \o Field("properties",
                   Obj(Field("id", Obj(Field("type", Str(<<"date">>))))
                         \o Field("status", Obj(Field("type", Str(<<"string">>)))))))))
  /\ StExpr(Statements(valibotSchema)[1])
       = <<"v.object({ ", "id", ": ", "v.any()", ", ", "status", ": ", "v.string()", " })">>

-----------------------------------------------------------------------------
(* Optional fields in the type-AST front end *)

\* the property signatures among the schemas, whose statements are emitted
\* in order
EmittedProperties == SelectSeq(SchemaMembers(ast), LAMBDA m : m.kind = "PropertySignature")

\* how many of them have been emitted so far
AstEmitted ==
  IF pc = "emitted" THEN Len(EmittedProperties)
  ELSE Cardinality({i \in 1..(next - 1) : SchemaMembers(ast)[i].kind = "PropertySignature"})

\* a type node and every type node transformNode renders inside it
RECURSIVE RenderedTypes(_)
RenderedTypes(node) ==
  {node} \cup
    (IF node.kind = "TypeLiteral"
     THEN UNION {RenderedTypes(node.sub[i].sub[1]) :
                   i \in {j \in DOMAIN node.sub : node.sub[j].kind = "PropertySignature"}}
     ELSE IF node.kind = "ArrayType" THEN RenderedTypes(node.sub[1])
     ELSE {})

\* the optional properties of the type literals rendered from a node,
\* counted at every depth
RECURSIVE OptionalFields(_)
OptionalFields(node) ==
  IF node.kind = "TypeLiteral"
  THEN LET RECURSIVE Sum(_)
           Sum(i) ==
             IF i = 0 THEN 0
             ELSE Sum(i - 1)
                  + (IF node.sub[i].kind = "PropertySignature"
                     THEN (IF node.sub[i].opt THEN 1 ELSE 0) + OptionalFields(node.sub[i].sub[1])
                     ELSE 0)
       IN Sum(Len(node.sub))
  ELSE IF node.kind = "ArrayType" THEN OptionalFields(node.sub[1])
  ELSE 0

\* how often the atom occurs in the text
Occurrences(text, atom) == Cardinality({k \in DOMAIN text : text[k] = atom})

\* C19: transformNode renders the property of a type literal as
\* `name: v.optional(<transformNode(type)>)` exactly when it carries the
\* question token and as `name: <transformNode(type)>` otherwise, at every
\* depth: an emitted schema holds exactly one v.optional( per optional
\* property of the type literals rendered in it.
C19_OptionalExactly ==
  (pc \in {"emitting", "emitted", "failed"} /\ next >= 1) =>
    LET st == Statements(valibotSchema)
        schemas == EmittedProperties
    IN /\ Len(st) = AstEmitted
       /\ \A i \in 1..AstEmitted :
            LET type == schemas[i].sub[1]
            IN /\ Occurrences(StExpr(st[i]), "v.optional(") = OptionalFields(type)
               /\ \A lit \in RenderedTypes(type) :
                    lit.kind = "TypeLiteral" =>
                      LET expr == IF lit = type THEN StExpr(st[i])
                                  ELSE transformNode(lit).text
                          field(m) ==
                            IF m.kind # "PropertySignature" THEN <<>>
                            ELSE IF m.opt
                            THEN m.text \o <<": ", "v.optional(">>
                                   \o transformNode(m.sub[1]).text \o <<")">>
                            ELSE m.text \o <<": ">> \o transformNode(m.sub[1]).text
                      IN expr = <<"v.object({ ">>
                                  \o Join([j \in DOMAIN lit.sub |-> field(lit.sub[j])], <<", ">>)
                                  \o <<" })">>

\* an optional object holding an optional and a required field, emitted
C19_Witness ==
  /\ pc = "emitted"
  /\ ast = Components(<<PropertySignature("User", FALSE,
             TypeLiteral(<<PropertySignature("id", TRUE,
                             TypeLiteral(<<PropertySignature("id", TRUE, Keyword("NumberKeyword")),
                                           PropertySignature("name", FALSE,
                                                             Keyword("StringKeyword"))>>))>>))>>)
  /\ StExpr(Statements(valibotSchema)[1])
       = <<"v.object({ ", "id", ": ", "v.optional(", "v.object({ ", "id", ": ", "v.optional(",
           "v.number()", ")", ", ", "name", ": ", "v.string()", " })", ")", " })">>

-----------------------------------------------------------------------------
(* Failing schemas, repeated paths, dangling references, set then get *)

\* C21: no schema shape makes the validation run fail: whatever JSON
\* values components.schemas holds, transformSchema returns a text for each
\* and the run never takes the catch block nor exits with status 1.
C21_NoShapeFails ==
  DeclaredSchemas(openapi) # <<>> =>
    /\ pc # "failed"
    /\ exitCode = 0
    /\ \A i \in 1..Emitted :
         transformSchema(DeclaredSchemas(openapi)[i][2], openapi).ok

\* C27: generateKeyTypes never emits the same path text twice, so the
\* entries of the key-path list and of the value type map are pairwise
\* different paths.
C27_PathsDistinct ==
  /\ pc \in {"keys", "mappings"} =>
        \A i, j \in DOMAIN keys : i # j => keys[i] # keys[j]
  /\ pc = "mappings" =>
        LET es == MapEntries(valueMappings)
        IN \A i, j \in DOMAIN es : i # j => EntryPath(es[i]) # EntryPath(es[j])

\* the names components.schemas declares
DeclaredNames == {DeclaredSchemas(openapi)[i][1] : i \in DOMAIN DeclaredSchemas(openapi)}

\* C28: every bare identifier emitted for a $ref, in a constant or inside
\* one, is the name of a schema that components.schemas declares and the
\* module therefore exports.
C28_RefsDeclared ==
  (pc \in {"emitting", "emitted", "failed"} /\ next >= 1) =>
    \A i \in 1..Emitted :
      \A node \in Rendered(DeclaredSchemas(openapi)[i][2]) :
        (node.t = "obj" /\ FirstRule(node) = 7) =>
          transformSchema(node, openapi).text \in DeclaredNames

\* C26: a call set(k, v) does not throw, and in the state it leaves
\* get(k) is v and has(k) is true, for every key path, the root path ''
\* included.
C26_SetThenGet ==
  (pc = "widget" /\ called.op = "set") =>
    /\ ~called.threw
    /\ get(data, called.key) = called.value
    /\ has(data, called.key)

-----------------------------------------------------------------------------
(* Failures of a run *)

\* the positions of the effects of a kind
EffectsOf(kind) == {i \in DOMAIN effects : effects[i].kind = kind}

\* the steps of the run that write a file
WriteSteps == {i \in DOMAIN Steps : Steps[i].kind \in {"write", "writeRaw"}}

\* C22: a failure of the formatter is not fatal: the warning of formatCode
\* is followed by the write of the unformatted text (or by the failure of
\* that write), no run ends in the catch block because of the formatter,
\* and a run that reaches its end has written every file, printed the
\* success lines and left the exit status at 0, however often the
\* formatter threw.
C22_FormatterNonFatal ==
  pc \in {"run", "done", "failed"} =>
    /\ \A i \in EffectsOf("warn") :
         /\ i < Len(effects)
         /\ \/ effects[i + 1] = Effect("error", <<>>, <<"write">>)
            \/ /\ effects[i + 1].kind = "write"
               /\ \E n \in WriteSteps :
                    /\ Steps[n].path = effects[i + 1].path
                    /\ effects[i + 1].text = Content(Steps[n])
    /\ \A i \in EffectsOf("error") : effects[i].text # <<"format">>
    /\ exitCode = 1 =>
         effects[Len(effects)].text \in {<<"read">>, <<"parse">>, <<"transform">>,
                                         <<"mkdir">>, <<"write">>}
    /\ pc = "done" =>
         /\ \A n \in WriteSteps : Steps[n].path \in Files
         /\ effects[Len(effects)].kind = "success"
         /\ exitCode = 0

\* generatePackages has ended with the formatter having thrown on every
\* one of its eight calls
C22_Witness ==
  /\ program = "packages"
  /\ pc = "done"
  /\ Cardinality(EffectsOf("warn")) = 8
  /\ exitCode = 0
  /\ \E i \in EffectsOf("write") :
       /\ effects[i].path = typesDir \o <<"src", "index.ts">>
       /\ effects[i].text = typesContent(interfaces, keys, valueMappings)

\* C23: when the input file cannot be read or does not hold JSON, the run
\* ends in the catch block with exit status 1 at its first step: no
\* directory is created, no file is written and the success lines are not
\* printed, in generatePackages and in generateValibotSchemas.
C23_InputFailureAborts ==
  (pc \in {"run", "done", "failed"} /\ (~input.readable \/ ~input.valid)) =>
    /\ pc # "done"
    /\ \A i \in DOMAIN effects : effects[i].kind = "error"
    /\ Dirs = {} /\ Files = {}
    /\ pc = "run" => next = 1 /\ effects = <<>>
    /\ pc = "failed" =>
         /\ exitCode = 1
         /\ effects = <<Effect("error", <<>>,
                               IF input.readable THEN <<"parse">> ELSE <<"read">>)>>

\* generatePackages on a file that is not JSON: failed, nothing created
C23_Witness ==
  /\ program = "packages"
  /\ input.readable /\ ~input.valid
  /\ pc = "failed"
  /\ exitCode = 1
  /\ effects = <<Effect("error", <<>>, <<"parse">>)>>

\* C24: a run of generatePackages that has failed leaves no partial
\* packages: none of its output files has been written.
C24_NoPartialPackages ==
  (program = "packages" /\ pc = "failed") => Files = {}

\* C25: a failure to create an output directory is fatal: the run does not
\* reach its end, prints no success lines and writes no file after the
\* failure, in generatePackages (ensureDir) and in generateValibotSchemas
\* (fs.mkdir).
C25_MkdirFailureFatal ==
  pc \in {"run", "done", "failed"} =>
    \A i \in DOMAIN effects :
      (effects[i].kind = "mkdirError" \/ effects[i] = Effect("error", <<>>, <<"mkdir">>)) =>
        /\ pc # "done"
        /\ \A j \in (i + 1)..Len(effects) : effects[j].kind \notin {"write", "success"}

====
